---- MODULE Spec2Model ----
(***************************************************************************)
(* Model of MHwPlistSplitter.py: the main() wrapper, split_sprites and its *)
(* per-entry loop, parse_plist and parse_rect_string.  Strings that the    *)
(* code takes apart (rectangle strings, sprite names, a string found where *)
(* a mapping was expected) are sequences of one-character strings.         *)
(***************************************************************************)
EXTENDS Integers, Sequences, FiniteSets, TLC

VARIABLES
    pc,          \* position in main(): "start","pick_png","split","loop","exit"
    help,        \* args.help
    pickers,     \* number of file pickers opened so far
    plist_path,  \* result of the first pick_file ("" = cancelled)
    png_path,    \* result of the second pick_file
    doc,         \* the decoded content of the plist file (or "undecodable")
    image_ok,    \* whether Image.open succeeds on the PNG
    called,      \* whether split_sprites was invoked
    frames,      \* the value parse_plist returned, as a sequence of entries
    idx,         \* number of entries of frames.items() visited so far
    count,       \* split_sprites' local count
    log,         \* one record per entry visited: what the loop printed/did
    files,       \* output directory: filename -> crop rectangle last saved
    summary,     \* values interpolated into the final "Done!" line
    error,       \* the exception that left split_sprites ("" = none)
    status,      \* exit status of the process (-1 = still running)
    rect_src,    \* the components and spacing rect_str was written from
    rect_str,    \* input of parse_rect_string
    rect_res,    \* its result
    lay_src,     \* a frames payload f and a second one g
    lay_res      \* results of parse_plist on the layouts built from lay_src

vars == <<pc, help, pickers, plist_path, png_path, doc, image_ok, called,
          frames, idx, count, log, files, summary, error, status,
          rect_src, rect_str, rect_res, lay_src, lay_res>>

mainVars_noPc == <<help, pickers, plist_path, png_path, doc, image_ok, called,
                   frames, idx, count, log, files, summary, error, status>>

mainVars == <<pc, help, pickers, plist_path, png_path, doc, image_ok, called,
              frames, idx, count, log, files, summary, error, status>>

----------------------------------------------------------------------------
(* Python string primitives, on sequences of characters *)

Digits == <<"0","1","2","3","4","5","6","7","8","9">>

IsDigit(c) == \E i \in 1..10 : Digits[i] = c

DigitVal(c) == (CHOOSE i \in 1..10 : Digits[i] = c) - 1

\* s[a..b] (1-based, inclusive), empty when a > b
Slice(s, a, b) == [i \in 1..(IF b >= a THEN b - a + 1 ELSE 0) |-> s[a + i - 1]]

\* str.strip(chars): drop leading and trailing characters that are in chars
StripChars(s, chars) ==
    LET keep == {i \in 1..Len(s) : s[i] \notin chars}
    IN  IF keep = {} THEN <<>>
        ELSE LET lo == CHOOSE i \in keep : \A j \in keep : i <= j
                 hi == CHOOSE i \in keep : \A j \in keep : i >= j
             IN  Slice(s, lo, hi)

StartsWithAt(s, sep, i) ==
    /\ i + Len(sep) - 1 <= Len(s)
    /\ \A j \in 1..Len(sep) : s[i + j - 1] = sep[j]

\* str.split(sep): non-overlapping occurrences, scanned left to right
RECURSIVE SplitFrom(_, _, _, _)
SplitFrom(s, sep, start, i) ==
    IF i > Len(s) - Len(sep) + 1 THEN <<Slice(s, start, Len(s))>>
    ELSE IF StartsWithAt(s, sep, i)
         THEN <<Slice(s, start, i - 1)>> \o SplitFrom(s, sep, i + Len(sep), i + Len(sep))
         ELSE SplitFrom(s, sep, start, i + 1)

Split(s, sep) == SplitFrom(s, sep, 1, 1)

\* "sub in s" for two strings
Contains(s, sub) == \E i \in 1..(Len(s) + 1) : StartsWithAt(s, sub, i)

----------------------------------------------------------------------------
(* float() and int() on a decimal token.  A double has a 53-bit mantissa,   *)
(* so a fraction close enough to the next integer converts to that integer. *)
(* Digit strings are handled as sequences of digits because the comparison  *)
(* involves numbers beyond TLC's integers.                                  *)

MantBits == 53

Whitespace == {" "}

Braces == {"{", "}"}

RECURSIVE NatOf(_)
NatOf(ds) == IF ds = <<>> THEN 0
             ELSE 10 * NatOf(SubSeq(ds, 1, Len(ds) - 1)) + DigitVal(ds[Len(ds)])

\* the least j with m <= 2^j
RECURSIVE CeilLog2From(_, _, _)
CeilLog2From(m, j, p) == IF m <= p THEN j ELSE CeilLog2From(m, j + 1, 2 * p)

CeilLog2(m) == CeilLog2From(m, 0, 1)

RECURSIVE Pow2(_)
Pow2(k) == IF k = 0 THEN 1 ELSE 2 * Pow2(k - 1)

\* floor(ds / m) for a most-significant-first digit sequence, same length
RECURSIVE DivFrom(_, _, _, _)
DivFrom(ds, m, i, r) ==
    IF i > Len(ds) THEN <<>>
    ELSE LET cur == r * 10 + ds[i]
         IN  <<cur \div m>> \o DivFrom(ds, m, i + 1, cur % m)

\* floor(ds / 2^e), dividing by at most 2^27 at a time
RECURSIVE DivPow2(_, _)
DivPow2(ds, e) ==
    IF e <= 27 THEN DivFrom(ds, Pow2(e), 1, 0)
    ELSE DivPow2(DivFrom(ds, Pow2(27), 1, 0), e - 27)

\* a + b for two digit sequences of equal length; one digit longer
RECURSIVE AddFrom(_, _, _, _)
AddFrom(a, b, i, carry) ==
    IF i = 0 THEN <<carry>>
    ELSE LET t == a[i] + b[i] + carry
         IN  AddFrom(a, b, i - 1, t \div 10) \o <<t % 10>>

\* floor(10^n / 2^e) as n+1 digits
HalfUlpScaled(n, e) == DivPow2(<<1>> \o [i \in 1..n |-> 0], e)

\* whether whole.frac, strictly between whole and whole+1, is at least the
\* midpoint of the two doubles around whole+1, so that float() gives whole+1:
\* (10^n - F) * 2^e <= 10^n, i.e. F + floor(10^n / 2^e) >= 10^n
RoundsToNext(whole, frac) ==
    LET n == Len(frac)
        e == (MantBits + 1) - CeilLog2(whole + 1)
        F == <<0>> \o [i \in 1..n |-> DigitVal(frac[i])]
        sum == AddFrom(F, HalfUlpScaled(n, e), n + 1, 0)
    IN  sum[1] # 0 \/ sum[2] # 0

\* float(tok) accepts optional surrounding whitespace, digits and at most
\* one point, with at least one digit.
FloatOk(tok) ==
    LET t == StripChars(tok, Whitespace)
    IN  /\ \A i \in 1..Len(t) : IsDigit(t[i]) \/ t[i] = "."
        /\ Cardinality({i \in 1..Len(t) : t[i] = "."}) <= 1
        /\ \E i \in 1..Len(t) : IsDigit(t[i])

IntOfFloatCeil(tok) ==
    LET t == StripChars(tok, Whitespace)
        dots == {i \in 1..Len(t) : t[i] = "."}
        d == IF dots = {} THEN Len(t) + 1 ELSE CHOOSE i \in dots : TRUE
        whole == NatOf(Slice(t, 1, d - 1))
        frac == Slice(t, d + 1, Len(t))
    IN  IF \E i \in 1..Len(frac) : frac[i] # "0" THEN whole + 1 ELSE whole

\* int(float(tok)) for a token FloatOk accepts
IntOfFloat(tok) ==
    LET t == StripChars(tok, Whitespace)
        dots == {i \in 1..Len(t) : t[i] = "."}
        d == IF dots = {} THEN Len(t) + 1 ELSE CHOOSE i \in dots : TRUE
        whole == NatOf(Slice(t, 1, d - 1))
        frac == Slice(t, d + 1, Len(t))
    IN  IF (\E i \in 1..Len(frac) : frac[i] # "0") /\ RoundsToNext(whole, frac)
        THEN whole + 1
        ELSE whole

----------------------------------------------------------------------------
(* parse_rect_string *)

Ok(v) == [ok |-> TRUE, val |-> v]

Err(e) == [ok |-> FALSE, exc |-> e]

StrVal(s) == [t |-> "str", s |-> s]

IntVal == [t |-> "int"]

\* "a, b = map(float, tokens)": the tokens are converted one at a time while
\* unpacking, a third token is converted before the count is complained of
UnpackPair(tokens) ==
    IF ~FloatOk(tokens[1]) THEN Err("could not convert string to float")
    ELSE IF Len(tokens) < 2 THEN Err("not enough values to unpack")
    ELSE IF ~FloatOk(tokens[2]) THEN Err("could not convert string to float")
    ELSE IF Len(tokens) > 2
         THEN IF ~FloatOk(tokens[3]) THEN Err("could not convert string to float")
              ELSE Err("too many values to unpack")
    ELSE Ok(<<IntOfFloat(tokens[1]), IntOfFloat(tokens[2])>>)

parse_rect_string(v) ==
    IF v.t # "str" THEN Err("AttributeError")
    ELSE LET parts == Split(StripChars(v.s, Braces), <<"}", ",", "{">>)
         IN  IF Len(parts) = 2
             THEN LET xy == UnpackPair(Split(StripChars(parts[1], Braces), <<",">>))
                      wh == UnpackPair(Split(StripChars(parts[2], Braces), <<",">>))
                  IN  IF ~xy.ok THEN xy
                      ELSE IF ~wh.ok THEN wh
                      ELSE Ok(xy.val \o wh.val)
             ELSE Err("Cannot parse rect string")

----------------------------------------------------------------------------
(* Decoded plist values and parse_plist *)

ListVal(elems) == [t |-> "list", elems |-> elems]

DictVal(items) == [t |-> "dict", items |-> items]

Undecodable == [t |-> "undecodable"]

KV(k, v) == [k |-> k, v |-> v]

HasKey(d, k) == \E i \in 1..Len(d.items) : d.items[i].k = k

Get(d, k) == d.items[CHOOSE i \in 1..Len(d.items) : d.items[i].k = k].v

FramesChars == <<"f", "r", "a", "m", "e", "s">>

\* 'frames' in v, for the value found under 'metadata'
FramesIn(v) ==
    IF v.t = "dict" THEN Ok(HasKey(v, "frames"))
    ELSE IF v.t = "str" THEN Ok(Contains(v.s, FramesChars))
    ELSE IF v.t = "list" THEN Ok(\E i \in 1..Len(v.elems) : v.elems[i] = FramesChars)
    ELSE Err("TypeError")

\* v['frames'], for a value FramesIn accepted
FramesOf(v) == IF v.t = "dict" THEN Ok(Get(v, "frames")) ELSE Err("TypeError")

Unsupported == "Unsupported plist format"

parse_plist_nested_first(d) ==
    IF d.t = "undecodable" THEN Err("InvalidFileException")
    ELSE IF HasKey(d, "metadata") /\ FramesIn(Get(d, "metadata")).ok
            /\ FramesIn(Get(d, "metadata")).val
         THEN FramesOf(Get(d, "metadata"))
    ELSE IF HasKey(d, "frames") THEN Ok(Get(d, "frames"))
    ELSE Err(Unsupported)

parse_plist(d) ==
    IF d.t = "undecodable" THEN Err("InvalidFileException")
    ELSE IF HasKey(d, "frames") THEN Ok(Get(d, "frames"))
    ELSE IF HasKey(d, "metadata")
         THEN LET m == Get(d, "metadata")
              IN  IF ~FramesIn(m).ok THEN FramesIn(m)
                  ELSE IF FramesIn(m).val THEN FramesOf(m)
                  ELSE Err(Unsupported)
    ELSE Err(Unsupported)

----------------------------------------------------------------------------
(* The pieces of the split_sprites loop body *)

NoFrame == [found |-> FALSE]

FrameStrTextureFirst(sprite_data) ==
    IF sprite_data.t = "dict"
    THEN IF HasKey(sprite_data, "textureRect")
         THEN [found |-> TRUE, str |-> Get(sprite_data, "textureRect")]
         ELSE IF HasKey(sprite_data, "frame")
         THEN [found |-> TRUE, str |-> Get(sprite_data, "frame")]
         ELSE NoFrame
    ELSE [found |-> TRUE, str |-> sprite_data]

\* lines 101-110: which value is handed to parse_rect_string
FrameStrOf(sprite_data) ==
    IF sprite_data.t = "dict"
    THEN IF HasKey(sprite_data, "frame")
         THEN [found |-> TRUE, str |-> Get(sprite_data, "frame")]
         ELSE IF HasKey(sprite_data, "textureRect")
         THEN [found |-> TRUE, str |-> Get(sprite_data, "textureRect")]
         ELSE NoFrame
    ELSE [found |-> TRUE, str |-> sprite_data]

\* the box given to img.crop
CropBox(r) == <<r[1], r[2], r[1] + r[3], r[2] + r[4]>>

\* Path(name).name: the last component that is neither empty nor "."
PathName(name) ==
    LET comps == Split(name, <<"/">>)
        real == {i \in 1..Len(comps) : comps[i] # <<>> /\ comps[i] # <<".">>}
    IN  IF real = {} THEN <<>>
        ELSE comps[CHOOSE i \in real : \A j \in real : j <= i]

\* Path(name).stem: the name without its last suffix
Stem(name) ==
    LET n == PathName(name)
        dots == {i \in 1..Len(n) : n[i] = "."}
        last == IF dots = {} THEN 0 ELSE CHOOSE i \in dots : \A j \in dots : j <= i
    IN  IF 1 < last /\ last < Len(n) THEN Slice(n, 1, last - 1) ELSE n

sprite_filename(name) == Stem(name) \o <<".", "p", "n", "g">>

WriteFirstWins(fs, fn, box) ==
    [f \in DOMAIN fs \cup {fn} |-> IF f \in DOMAIN fs THEN fs[f] ELSE box]

\* sprite.save(sprite_path): create or overwrite the file
WriteFile(fs, fn, box) ==
    [f \in DOMAIN fs \cup {fn} |-> IF f = fn THEN box ELSE fs[f]]

Saved(name, used, fn, box) ==
    [name |-> name, outcome |-> "saved", used |-> used, filename |-> fn,
     box |-> box, reason |-> ""]

Failed(name, used, reason) ==
    [name |-> name, outcome |-> "error", used |-> used, filename |-> <<>>,
     box |-> <<>>, reason |-> reason]

Skipped(name) ==
    [name |-> name, outcome |-> "skipped", used |-> [t |-> "none"], filename |-> <<>>,
     box |-> <<>>, reason |-> "no frame data found"]

----------------------------------------------------------------------------
(* Rectangle strings fed to parse_rect_string *)

MaxNines == 17

Nines(k) == [i \in 1..k |-> "9"]

Wholes == {<<"0">>, <<"3">>, <<"1", "2">>}

Fracs == {<<>>} \cup {Nines(k) \o <<d>> : k \in 0..MaxNines, d \in {"1", "5", "9"}}

Component(whole, frac) == IF frac = <<>> THEN whole ELSE whole \o <<".">> \o frac

Comps == {Component(wh, fr) : wh \in Wholes, fr \in Fracs}

SmallComps == {<<"0">>, <<"2", ".", "5">>}

Spacings == {"none", "lead", "trail", "sep", "inner"}

\* "{{x,y},{w,h}}" written with one of the spacings
RectString(x, y, w, h, ws) ==
    LET sp == IF ws = "inner" THEN <<" ">> ELSE <<>>
        tok(c) == sp \o c \o sp
        mid == IF ws = "sep" THEN <<"}", ",", " ", "{">> ELSE <<"}", ",", "{">>
        body == <<"{", "{">> \o tok(x) \o <<",">> \o tok(y) \o mid
                \o tok(w) \o <<",">> \o tok(h) \o <<"}", "}">>
    IN  IF ws = "lead" THEN <<" ">> \o body
        ELSE IF ws = "trail" THEN body \o <<" ">>
        ELSE body

\* one component ranges over Comps, the other three over SmallComps
RectSources ==
    UNION {{[x |-> IF p = 1 THEN c ELSE o[1], y |-> IF p = 2 THEN c ELSE o[2],
             w |-> IF p = 3 THEN c ELSE o[3], h |-> IF p = 4 THEN c ELSE o[4],
             ws |-> sp] :
               c \in Comps, o \in [1..4 -> SmallComps], sp \in Spacings} : p \in 1..4}

NoResult == [ok |-> FALSE, exc |-> "none"]

NoSummary == [numbers |-> <<>>, dir |-> ""]

Idle ==
    /\ help = FALSE /\ pickers = 0 /\ plist_path = "" /\ png_path = ""
    /\ doc = [t |-> "none"] /\ image_ok = TRUE /\ called = FALSE
    /\ frames = [t |-> "none"] /\ idx = 0 /\ count = 0 /\ log = <<>>
    /\ files = <<>> /\ summary = NoSummary /\ error = "" /\ status = -1

InitRect ==
    /\ Idle
    /\ pc = "rect"
    /\ rect_src \in RectSources
    /\ rect_str = StrVal(RectString(rect_src.x, rect_src.y, rect_src.w, rect_src.h, rect_src.ws))
    /\ rect_res = NoResult
    /\ lay_src = [f |-> IntVal, g |-> IntVal] /\ lay_res = <<>>

ParseRect ==
    /\ pc = "rect"
    /\ rect_res' = parse_rect_string(rect_str)
    /\ pc' = "rect_done"
    /\ UNCHANGED <<mainVars_noPc, rect_src, rect_str, lay_src, lay_res>>

NextRect == ParseRect

SpecRect == InitRect /\ [][NextRect]_vars

----------------------------------------------------------------------------
(* Plist documents the run is given *)

MaxEntries == 2

R1 == StrVal(RectString(<<"1">>, <<"2">>, <<"3", ".", "9">>, <<"4", ".", "1">>, "none"))

R2 == StrVal(RectString(<<"0">>, <<"0">>, <<"2">>, <<"2">>, "none"))

\* "{{1,2}, {3,4}}"
RBadSep == StrVal(RectString(<<"1">>, <<"2">>, <<"3">>, <<"4">>, "sep"))

\* "{{1,2,3},{4,5}}"
RBadCount == StrVal(<<"{", "{", "1", ",", "2", ",", "3", "}", ",", "{", "4", ",", "5", "}", "}">>)

SpriteDatas ==
    { DictVal(<<KV("frame", R1)>>),
      DictVal(<<KV("frame", RBadSep)>>),
      DictVal(<<KV("frame", IntVal)>>),
      DictVal(<<KV("textureRect", R2)>>),
      DictVal(<<KV("textureRect", R2), KV("frame", R1)>>),
      DictVal(<<KV("frame", RBadCount), KV("textureRect", R2)>>),
      DictVal(<<KV("offset", R1)>>),
      R2,
      RBadCount,
      IntVal }

SpriteNames == {<<"a", ".", "p", "n", "g">>, <<"d", "/", "a">>, <<"b">>}

Entries == {KV(n, d) : n \in SpriteNames, d \in SpriteDatas}

\* sequences of at most MaxEntries entries with distinct sprite names
RECURSIVE ItemSeqs(_)
ItemSeqs(n) ==
    IF n = 0 THEN {<<>>}
    ELSE LET shorter == ItemSeqs(n - 1)
         IN  shorter \cup
             {Append(q, e) : q \in {r \in shorter : Len(r) = n - 1},
                             e \in Entries}

Payloads ==
    {DictVal(q) : q \in {r \in ItemSeqs(MaxEntries) :
                            \A i, j \in 1..Len(r) : i # j => r[i].k # r[j].k}}

SmallPayloads == {f \in Payloads : Len(f.items) <= 1}

\* values that are not mappings
NonMappings ==
    { StrVal(<<"x">>), StrVal(<<"x">> \o FramesChars), IntVal,
      ListVal(<<>>), ListVal(<<FramesChars>>) }

Flat(f) == DictVal(<<KV("frames", f)>>)

Nested(f) == DictVal(<<KV("metadata", DictVal(<<KV("frames", f)>>))>>)

Both(f, g) == DictVal(<<KV("metadata", DictVal(<<KV("frames", g)>>)), KV("frames", f)>>)

Docs ==
    {Flat(f) : f \in Payloads}
    \cup {Nested(f) : f \in SmallPayloads}
    \cup {Both(f, g) : f \in SmallPayloads, g \in SmallPayloads}
    \cup {Flat(v) : v \in NonMappings}
    \cup {Nested(v) : v \in NonMappings}
    \cup {DictVal(<<KV("metadata", v)>>) : v \in NonMappings}
    \cup {DictVal(<<>>), DictVal(<<KV("metadata", DictVal(<<>>))>>),
          DictVal(<<KV("other", IntVal)>>), Undecodable}

----------------------------------------------------------------------------
(* main() and split_sprites *)

OutputDir == "Documents/MHwPlistSplitter/sheet"

Init ==
    /\ pc = "start"
    /\ help \in BOOLEAN
    /\ pickers = 0 /\ plist_path = "" /\ png_path = ""
    /\ doc = [t |-> "none"] /\ image_ok = TRUE /\ called = FALSE
    /\ frames = [t |-> "none"] /\ idx = 0 /\ count = 0 /\ log = <<>>
    /\ files = <<>> /\ summary = NoSummary /\ error = "" /\ status = -1
    /\ rect_src = [ws |-> "none"] /\ rect_str = StrVal(<<>>) /\ rect_res = NoResult
    /\ lay_src = [f |-> IntVal, g |-> IntVal] /\ lay_res = <<>>

pureVars == <<rect_src, rect_str, rect_res, lay_src, lay_res>>

runVars == <<doc, image_ok, called, frames, idx, count, log, files, summary, error>>

\* lines 138-140
ShowHelp ==
    /\ pc = "start" /\ help
    /\ pc' = "exit" /\ status' = 0
    /\ UNCHANGED <<help, pickers, plist_path, png_path, runVars, pureVars>>

\* lines 147-154: pick_file returns the chosen path, or "" when cancelled
PickPlist ==
    /\ pc = "start" /\ ~help
    /\ \E path \in {"", "sheet.plist"} :
        /\ plist_path' = path
        /\ pickers' = pickers + 1
        /\ IF path = "" THEN pc' = "exit" /\ status' = 0
                        ELSE pc' = "pick_png" /\ status' = status
    /\ UNCHANGED <<help, png_path, runVars, pureVars>>

\* lines 158-165
PickPng ==
    /\ pc = "pick_png"
    /\ \E path \in {"", "sheet.png"} :
        /\ png_path' = path
        /\ pickers' = pickers + 1
        /\ IF path = "" THEN pc' = "exit" /\ status' = 0
                        ELSE pc' = "split" /\ status' = status
    /\ UNCHANGED <<help, plist_path, runVars, pureVars>>

\* the handler without its sys.exit(1)
StatusOnErrorZero == 1 - 1

\* line 173: sys.exit(1)
StatusOnError == 1

\* frames.items(): only a mapping has it
ItemsOf(v) == IF v.t = "dict" THEN Ok(v.items) ELSE Err("AttributeError")

\* lines 170, 81-98: the call of split_sprites up to the start of the loop;
\* an exception on the way reaches the handler of lines 171-173
SplitSetup ==
    /\ pc = "split"
    /\ called' = TRUE
    /\ \E d \in Docs, ok \in BOOLEAN :
        /\ doc' = d
        /\ image_ok' = ok
        /\ LET parsed == parse_plist(d)
           IN  IF ~parsed.ok
               THEN /\ error' = parsed.exc /\ frames' = frames
                    /\ pc' = "exit" /\ status' = StatusOnError
               ELSE IF ~ok
               THEN /\ error' = "UnidentifiedImageError" /\ frames' = parsed.val
                    /\ pc' = "exit" /\ status' = StatusOnError
               ELSE IF ~ItemsOf(parsed.val).ok
               THEN /\ error' = ItemsOf(parsed.val).exc /\ frames' = parsed.val
                    /\ pc' = "exit" /\ status' = StatusOnError
               ELSE /\ error' = error /\ frames' = parsed.val
                    /\ pc' = "loop" /\ status' = status
    /\ idx' = 0 /\ count' = 0
    /\ UNCHANGED <<help, pickers, plist_path, png_path, log, files, summary, pureVars>>

AbortAfterError(i, n) == n

\* lines 126-127: the handler is inside the loop, the next entry follows
ContinueAfterError(i, n) == i + 1

SilentSkip(l, name) == l

\* lines 107-108
ReportSkip(l, name) == Append(l, Skipped(name))

CountEveryEntry(c, outcome) == c + 1

\* line 123, reached only after sprite.save returned
CountAfter(c, outcome) == IF outcome = "saved" THEN c + 1 ELSE c

\* lines 98-127: one iteration of the loop
ProcessEntry ==
    /\ pc = "loop" /\ idx < Len(frames.items)
    /\ LET sprite_name == frames.items[idx + 1].k
           sprite_data == frames.items[idx + 1].v
           fs == FrameStrOf(sprite_data)
           n == Len(frames.items)
       IN  IF ~fs.found
           THEN /\ log' = ReportSkip(log, sprite_name)
                /\ count' = CountAfter(count, "skipped")
                /\ idx' = idx + 1
                /\ files' = files
           ELSE LET pr == parse_rect_string(fs.str)
                IN  IF ~pr.ok
                    THEN /\ log' = Append(log, Failed(sprite_name, fs.str, pr.exc))
                         /\ count' = CountAfter(count, "error")
                         /\ idx' = ContinueAfterError(idx, n)
                         /\ files' = files
                    ELSE \E io \in {"ok", "OSError"} :
                           IF io # "ok"
                           THEN /\ log' = Append(log, Failed(sprite_name, fs.str, io))
                                /\ count' = CountAfter(count, "error")
                                /\ idx' = ContinueAfterError(idx, n)
                                /\ files' = files
                           ELSE /\ files' = WriteFile(files, sprite_filename(sprite_name),
                                                      CropBox(pr.val))
                                /\ log' = Append(log, Saved(sprite_name, fs.str,
                                                            sprite_filename(sprite_name),
                                                            CropBox(pr.val)))
                                /\ count' = CountAfter(count, "saved")
                                /\ idx' = idx + 1
    /\ UNCHANGED <<pc, help, pickers, plist_path, png_path, doc, image_ok, called,
                   frames, summary, error, status, pureVars>>

\* line 129: what the final line reports
SummaryOf(c, n) == [numbers |-> <<c>>, dir |-> OutputDir]

\* lines 129, 170: the loop is over, split_sprites returns, main returns
Finish ==
    /\ pc = "loop" /\ idx >= Len(frames.items)
    /\ summary' = SummaryOf(count, Len(frames.items))
    /\ pc' = "exit" /\ status' = 0
    /\ UNCHANGED <<help, pickers, plist_path, png_path, doc, image_ok, called,
                   frames, idx, count, log, files, error, pureVars>>

Next == ShowHelp \/ PickPlist \/ PickPng \/ SplitSetup \/ ProcessEntry \/ Finish

Spec == Init /\ [][Next]_vars

----------------------------------------------------------------------------
(* parse_plist applied to the layouts of one payload *)

SecondPayloads == {DictVal(<<>>), DictVal(<<KV(<<"b">>, R2)>>), IntVal}

InitLayout ==
    /\ Idle
    /\ pc = "layout"
    /\ lay_src \in [f : Payloads \cup NonMappings, g : SecondPayloads]
    /\ lay_res = <<>>
    /\ rect_src = [ws |-> "none"] /\ rect_str = StrVal(<<>>) /\ rect_res = NoResult

Record(res, layout, r) ==
    [l \in DOMAIN res \cup {layout} |-> IF l = layout THEN r ELSE res[l]]

ParseFlat ==
    /\ pc = "layout" /\ "flat" \notin DOMAIN lay_res
    /\ lay_res' = Record(lay_res, "flat", parse_plist(Flat(lay_src.f)))
    /\ UNCHANGED <<mainVars, rect_src, rect_str, rect_res, lay_src>>

ParseNested ==
    /\ pc = "layout" /\ "nested" \notin DOMAIN lay_res
    /\ lay_res' = Record(lay_res, "nested", parse_plist(Nested(lay_src.f)))
    /\ UNCHANGED <<mainVars, rect_src, rect_str, rect_res, lay_src>>

ParseBoth ==
    /\ pc = "layout" /\ "both" \notin DOMAIN lay_res
    /\ lay_res' = Record(lay_res, "both", parse_plist(Both(lay_src.f, lay_src.g)))
    /\ UNCHANGED <<mainVars, rect_src, rect_str, rect_res, lay_src>>

NextLayout == ParseFlat \/ ParseNested \/ ParseBoth

SpecLayout == InitLayout /\ [][NextLayout]_vars

----------------------------------------------------------------------------
(* Properties *)

\* the loop of split_sprites was entered: parse_plist returned a mapping and
\* the image opened
InRun == called /\ error = "" /\ pc \in {"loop", "exit"}

Finished == InRun /\ pc = "exit"

Items == frames.items

SavedIdx == {i \in 1..Len(log) : log[i].outcome = "saved"}

\* C1: a run over a frames mapping of N entries and a valid image ends with
\* exactly N per-entry results, in the order of the mapping, each a success
\* with its filename or a failure with a reason; entries that are mappings
\* with neither key included.
C1_OneResultPerEntry ==
    /\ (called /\ pc = "exit" /\ frames.t = "dict" /\ image_ok) => Finished
    /\ Finished =>
        /\ Len(log) = Len(Items)
        /\ \A i \in 1..Len(log) :
            /\ log[i].name = Items[i].k
            /\ \/ log[i].outcome = "saved" /\ log[i].filename # <<>>
               \/ log[i].outcome # "saved" /\ log[i].reason # ""

C1_Witness ==
    /\ Finished /\ Len(log) = 2
    /\ log[1].outcome = "skipped" /\ log[2].outcome = "error"

\* the files a run over the given entries leaves, when every one succeeds
RECURSIVE FilesAfter(_, _)
FilesAfter(items, n) ==
    IF n = 0 THEN <<>>
    ELSE LET before == FilesAfter(items, n - 1)
             fn == Stem(items[n].k) \o <<".", "p", "n", "g">>
             box == CropBox(parse_rect_string(FrameStrOf(items[n].v).str).val)
         IN  [f \in DOMAIN before \cup {fn} |-> IF f = fn THEN box ELSE before[f]]

\* the entries visited so far, the failed and skipped ones left out
Survivors == SelectSeq([i \in 1..Len(log) |-> [k |-> Items[i].k, v |-> Items[i].v,
                                                outcome |-> log[i].outcome]],
                       LAMBDA e : e.outcome = "saved")

\* C2: a failing entry is reported under its own sprite name and does not end
\* the run: every entry is visited, and the files written are those of a run
\* over the document without the failing entries.
C2_PerEntryIsolation ==
    InRun =>
        /\ Len(log) = idx
        /\ pc = "exit" => idx = Len(Items)
        /\ \A i \in 1..Len(log) :
             log[i].outcome = "error" => log[i].name = Items[i].k /\ log[i].reason # ""
        /\ files = FilesAfter(Survivors, Len(Survivors))

C2_Witness ==
    /\ Finished /\ Len(log) = 2
    /\ log[1].outcome = "error" /\ log[1].reason = "Cannot parse rect string"
    /\ log[2].outcome = "saved"

ResolvesToMapping(d) ==
    \/ HasKey(d, "frames") /\ Get(d, "frames").t = "dict"
    \/ /\ HasKey(d, "metadata") /\ Get(d, "metadata").t = "dict"
       /\ HasKey(Get(d, "metadata"), "frames")
       /\ Get(Get(d, "metadata"), "frames").t = "dict"

\* C3: when neither 'frames' nor 'metadata' -> 'frames' of the decoded
\* document is a mapping, parse_plist raises "Unsupported plist format" and
\* the run ends without any sprite cropped or saved.
C3_UnsupportedFormat ==
    (called /\ doc.t = "dict" /\ ~ResolvesToMapping(doc)) =>
        /\ error = Unsupported
        /\ pc = "exit" /\ status = 1
        /\ log = <<>> /\ files = <<>>

\* C4: parse_plist returns the payload itself from the flat layout and the
\* same from the nested layout; with both keys present the top-level
\* 'frames' is returned.
C4_LayoutEquivalence ==
    pc = "layout" =>
        /\ "flat" \in DOMAIN lay_res => lay_res["flat"] = Ok(lay_src.f)
        /\ {"flat", "nested"} \subseteq DOMAIN lay_res => lay_res["nested"] = lay_res["flat"]
        /\ "both" \in DOMAIN lay_res => lay_res["both"] = Ok(lay_src.f)

C4_Witness ==
    /\ pc = "layout" /\ DOMAIN lay_res = {"flat", "nested", "both"}
    /\ lay_src.f.t = "dict" /\ Len(lay_src.f.items) = 2
    /\ lay_src.g.t = "dict" /\ Len(lay_src.g.items) = 1

\* trunc(c) for a decimal component c: its digits before the point
TruncOf(c) ==
    LET dots == {i \in 1..Len(c) : c[i] = "."}
        d == IF dots = {} THEN Len(c) + 1 ELSE CHOOSE i \in dots : TRUE
    IN  NatOf(Slice(c, 1, d - 1))

DigitCount(c) == Cardinality({i \in 1..Len(c) : IsDigit(c[i])})

TruncRect(src) == <<TruncOf(src.x), TruncOf(src.y), TruncOf(src.w), TruncOf(src.h)>>

\* C5 as stated: for every well-formed "{{x,y},{w,h}}" with non-negative
\* decimal components the result is (trunc(x), trunc(y), trunc(w), trunc(h)).
C5_TruncatesEveryDecimal ==
    (pc = "rect_done" /\ rect_src.ws = "none") => rect_res = Ok(TruncRect(rect_src))

\* C5 amended: the same, for components of at most 15 digits each.
C5_TruncatesShortDecimals ==
    (/\ pc = "rect_done" /\ rect_src.ws = "none"
     /\ \A f \in {"x", "y", "w", "h"} : DigitCount(rect_src[f]) <= 15)
        => rect_res = Ok(TruncRect(rect_src))

C5_Witness ==
    /\ pc = "rect_done" /\ rect_src.ws = "none"
    /\ rect_src.w = Component(<<"3">>, Nines(14))
    /\ rect_src.x = <<"2", ".", "5">>
    /\ rect_res = Ok(<<2, TruncOf(rect_src.y), 3, TruncOf(rect_src.h)>>)

\* the last saved entry that was written to file f
LastSaved(f) ==
    CHOOSE i \in SavedIdx : /\ log[i].filename = f
                            /\ \A j \in SavedIdx : log[j].filename = f => j <= i

\* the sprite names of the documents, with directories and extension removed
BaseName ==
    [n \in SpriteNames |->
        IF n = <<"b">> THEN <<"b">> ELSE <<"a">>]

\* C6: a saved entry goes to <base name>.png; entries whose names give the
\* same filename are all saved and counted, and the file holds the crop of
\* the last of them.
C6_FilenameCollision ==
    InRun =>
        /\ \A i \in SavedIdx : log[i].filename = BaseName[log[i].name] \o <<".", "p", "n", "g">>
        /\ DOMAIN files = {log[i].filename : i \in SavedIdx}
        /\ \A f \in DOMAIN files : files[f] = log[LastSaved(f)].box
        /\ count = Cardinality(SavedIdx)

C6_Witness ==
    /\ Finished /\ count = 2 /\ SavedIdx = {1, 2}
    /\ log[1].filename = log[2].filename /\ log[1].name # log[2].name
    /\ log[1].box # log[2].box
    /\ files[log[1].filename] = log[2].box

C8_SummaryHasTotal ==
    Finished => summary.numbers = <<count, Len(Items)>>

\* C8 amended: count is the number of entries saved so far, between 0 and the
\* number visited; the final line gives that count alone (with the output
\* directory); every failed or skipped entry is reported under its sprite
\* name with a reason when it is visited.
C8_SuccessAccounting ==
    InRun =>
        /\ count = Cardinality(SavedIdx)
        /\ 0 <= count /\ count <= idx /\ idx = Len(log)
        /\ Finished => summary = [numbers |-> <<Cardinality(SavedIdx)>>, dir |-> OutputDir]
        /\ \A i \in 1..Len(log) :
              log[i].outcome # "saved" => log[i].name = Items[i].k /\ log[i].reason # ""

C8_Witness ==
    /\ Finished /\ Len(log) = 2 /\ count = 1
    /\ log[1].outcome = "saved" /\ log[2].outcome = "skipped"
    /\ summary.numbers = <<1>>

\* C9: the value parsed is that of 'frame' when the entry is a mapping with
\* 'frame', else that of 'textureRect' when it has it, else the entry itself
\* when it is no mapping; a mapping with neither is skipped: no file, no
\* count, no fatal error.
C9_FrameDispatch ==
    InRun =>
        /\ \A i \in 1..Len(log) :
            LET d == Items[i].v
            IN  IF d.t # "dict" THEN log[i].outcome # "skipped" /\ log[i].used = d
                ELSE IF HasKey(d, "frame")
                THEN log[i].outcome # "skipped" /\ log[i].used = Get(d, "frame")
                ELSE IF HasKey(d, "textureRect")
                THEN log[i].outcome # "skipped" /\ log[i].used = Get(d, "textureRect")
                ELSE log[i].outcome = "skipped" /\ log[i].filename = <<>>
        /\ count <= Cardinality({i \in 1..Len(log) : log[i].outcome # "skipped"})
        /\ \A f \in DOMAIN files : \E i \in 1..Len(log) :
              log[i].outcome # "skipped" /\ log[i].filename = f

C9_Witness ==
    /\ Finished /\ Len(log) = 2
    /\ Items[1].v.t = "dict"
    /\ HasKey(Items[1].v, "frame") /\ HasKey(Items[1].v, "textureRect")
    /\ Items[1].v.items[1].k = "textureRect"
    /\ log[1].outcome = "saved" /\ log[1].used = R1
    /\ log[2].outcome = "skipped"

RemoveSpaces(s) == SelectSeq(s, LAMBDA c : c # " ")

\* C10: parse_rect_string gives for a rectangle string with whitespace around
\* its braces the result it gives for the string without that whitespace.
C10_WhitespaceTolerance ==
    pc = "rect_done" =>
        rect_res = parse_rect_string(StrVal(RemoveSpaces(rect_str.s)))

====
